---- MODULE Spec2Model ----
(***************************************************************************)
(* EventService (src/src/services/eventService.js): the client-side data-  *)
(* access layer for events.  Every method is an async function; a call is   *)
(* modelled as a small process whose pc stands at the await it is suspended *)
(* on.  The relational store (supabase, schema in the SQL migration), the   *)
(* REST endpoint and the identity record are the collaborators.             *)
(***************************************************************************)
EXTENDS Integers, Sequences, FiniteSets, TLC

\* ---------------------------------------------------------------- bounds
MaxCreates == 2      \* rows the relational store accepts in one run
MaxClock == 1        \* last reading of the clock (readings 0..MaxClock)
MaxCalls == 3        \* top-level calls made in one run

\* ---------------------------------------------------------------- values
Slots == {"a", "b"}  \* top-level calls that may be in flight
SeqSlots == {"a"}    \* ... when the caller awaits each call before the next

Undefined == "undefined"            \* the JS value undefined, in a text-valued key
TextKeys == {"user_id", "event_name"}

\* What getItem('user') can hand back: <<>> is null (no item), <<text>> the text.
UserItems ==
    { <<>>, <<"">>, <<"not json">>, <<"null">>, <<"{}">>, <<"{\"id\":\"u1\"}">> }

\* eventData objects handed to createEvent (<<>> is {}: no eventName key).
EventDatas == { <<>>, [eventName |-> "a"] }

\* updates objects handed to updateEvent.
Patches ==
    { [event_name |-> "b"],
      [event_name |-> Undefined, user_id |-> "u2"],
      [id |-> 1] }

\* identifiers a caller may ask for: the REST store's 0 and the store-assigned ones
IdArgs == 0 .. MaxCreates

\* The REST endpoint's own collection before the session starts.
RestSeeds ==
    { <<>>, << [id |-> 0, user_id |-> "u1", event_name |-> "r", updatedAt |-> 0] >> }

VARIABLES
    useBackend,   \* this.useBackend
    stored,       \* localStorage[this.storageKey]: <<>> (null) or <<the JSON array>>
    dbEvents,     \* the relational table events: the primary keys of its rows
    restStore,    \* the REST endpoint's collection
    now,          \* last reading of the client clock
    calls,        \* per slot: the call in flight, its position and locals
    ncalls,       \* top-level calls made so far
    last,         \* history: the last call that wrote the mirror, <<>> before any
    owner         \* history: per row of the table, the user_id it was inserted with

vars == <<useBackend, stored, dbEvents, restStore, now, calls, ncalls, last, owner>>

\* ---------------------------------------------------------------- helpers
\* {...a, ...b}
Spread(a, b) ==
    [k \in (DOMAIN a) \cup (DOMAIN b) |-> IF k \in DOMAIN b THEN b[k] ELSE a[k]]

IsUndef(r, k) == k \in TextKeys /\ r[k] = Undefined

\* JSON.parse(JSON.stringify(r)) of one object: keys holding undefined are dropped.
JsonObject(r) == [k \in {x \in DOMAIN r : ~IsUndef(r, x)} |-> r[k]]

\* JSON.parse(JSON.stringify(list))
JsonArray(list) == [i \in 1 .. Len(list) |-> JsonObject(list[i])]

\* eventsJson ? JSON.parse(eventsJson) : []
ReadMirror == IF stored = <<>> THEN <<>> ELSE stored[1]

\* localStorage.setItem(this.storageKey, JSON.stringify(events))
SetItem(events) == << JsonArray(events) >>

\* events.findIndex(event => event.id === id), 1-based; 0 stands for -1
FindIndex(events, id) ==
    IF \E i \in 1 .. Len(events) : events[i].id = id
    THEN CHOOSE i \in 1 .. Len(events) :
            /\ events[i].id = id
            /\ \A j \in 1 .. (i - 1) : events[j].id # id
    ELSE 0

\* events.find(event => event.id === id): <<>> is undefined
Find(events, id) ==
    IF FindIndex(events, id) = 0 THEN <<>> ELSE << events[FindIndex(events, id)] >>

\* events.filter(event => event.id !== id)
Filter(events, id) == SelectSeq(events, LAMBDA e : e.id # id)

Ids(events) == { events[i].id : i \in 1 .. Len(events) }

\* ---------------------------------------------------------------- identity
\* const user = JSON.parse(text); return user.id  throws: on text that is no JSON
\* (SyntaxError) and on the JSON null (TypeError reading .id)
UserIdThrows(text) == text \in {"not json", "null"}

\* JSON.parse(text).id where it does not throw: <<>> (undefined) or <<id>>
UserIdOf(text) ==
    IF text = "{\"id\":\"u1\"}" THEN << "u1" >> ELSE <<>>

Truthy(item) == item # <<>> /\ item # <<"">>

\* getCurrentUserId with sessionStorage holding su and localStorage holding lu:
\* <<>> for null/undefined, <<id>> otherwise
getCurrentUserId(su, lu) ==
    LET storedUser == IF Truthy(su) THEN su ELSE lu
    IN  IF Truthy(storedUser)
        THEN IF UserIdThrows(storedUser[1]) THEN <<>> ELSE UserIdOf(storedUser[1])
        ELSE <<>>

\* ---------------------------------------------------------------- calls
\* A call: op and pc (the await it is suspended on, "done" once it has settled);
\* the arguments id, updates, eventData; the locals userId, storeError (the error
\* of the insert's reply), events (what getAllEvents returned), item (newEvent,
\* updatedEvent); ret (where the inner getAllEvents returns to); the outcome:
\* result (<<>> is null/undefined) and error ("" when the promise resolved, else
\* what it rejected with); and history: the probe outcomes of the call and the
\* mirror, table and endpoint as they were when it was made; seen, the values of
\* this.useBackend the call read at its `if (this.useBackend)`; fetch, how its
\* GET /events for the list settled ("" when it made none); remoteError, that its
\* DELETE was rejected; prevRest, for a getAllEvents made right after a getAllEvents
\* the endpoint served, the list that one returned.
Idle ==
    [op |-> "idle", pc |-> "idle", id |-> -1, updates |-> <<>>, userId |-> <<>>,
     eventData |-> <<>>, storeError |-> FALSE, ret |-> "", events |-> <<>>,
     item |-> <<>>, result |-> <<>>, error |-> "", probes |-> <<>>,
     pre |-> <<>>, preDb |-> {}, preRest |-> <<>>,
     seen |-> <<>>, fetch |-> "", remoteError |-> FALSE, prevRest |-> <<>>]

NewCall(op, pc) ==
    [Idle EXCEPT !.op = op, !.pc = pc, !.pre = stored, !.preDb = dbEvents,
                 !.preRest = restStore]

Init ==
    /\ useBackend = FALSE
    /\ stored = <<>>
    /\ dbEvents = {}
    /\ restStore \in RestSeeds
    /\ now = 0
    /\ calls = [s \in Slots |-> Idle]
    /\ ncalls = 0
    /\ last = <<>>
    /\ owner = <<>>

Set(s, c) == calls' = [calls EXCEPT ![s] = c]

\* history record of a mirror write: the operation, its identifier (the new record's
\* for a create), the record it returned and whether every probe of the call failed
LastWrite(op, c) ==
    [op |-> op,
     id |-> IF op = "create" THEN c.item[1].id ELSE c.id,
     item |-> IF op = "create" THEN c.item ELSE <<>>,
     offline |-> \A i \in 1 .. Len(c.probes) : ~c.probes[i]]

AllFalse(bs) == \A i \in 1 .. Len(bs) : ~bs[i]

\* ---------------------------------------------------------------- checkBackendConnection
\* The probe settles: axios.get resolves (ok) or rejects; the flag is written.
checkBackendConnection(s) ==
    /\ calls[s].pc \in {"probe", "ga_probe"}
    /\ \E ok \in BOOLEAN :
        /\ useBackend' = ok
        /\ Set(s, [calls[s] EXCEPT
                !.pc = IF calls[s].pc = "probe" THEN "branch" ELSE "ga_branch",
                !.probes = Append(@, ok)])
    /\ UNCHANGED <<stored, dbEvents, restStore, now, ncalls, last, owner>>

\* ---------------------------------------------------------------- getAllEvents
\* A top-level getAllEvents() call.
getAllEvents(s) ==
    /\ calls[s].pc \in {"idle", "done"} /\ ncalls < MaxCalls
    /\ Set(s, [NewCall("list", "ga_probe") EXCEPT
                !.ret = "done",
                !.prevRest = IF calls[s].op = "list" /\ calls[s].fetch = "ok"
                             THEN << calls[s].events >> ELSE <<>>])
    /\ ncalls' = ncalls + 1
    /\ UNCHANGED <<useBackend, stored, dbEvents, restStore, now, last, owner>>

\* getAllEventsCatch that gives up with an empty list instead of reading the mirror
getAllEventsCatchEmpty(c) == [c EXCEPT !.events = <<>>, !.pc = c.ret]

\* the catch block: read the local mirror instead
getAllEventsCatch(c) == [c EXCEPT !.events = ReadMirror, !.pc = c.ret]

\* after the probe: if (this.useBackend) ... else read the mirror
getAllEventsBranch(s) ==
    /\ calls[s].pc = "ga_branch"
    /\ LET c == [calls[s] EXCEPT !.seen = Append(@, useBackend)]
       IN  IF useBackend
           THEN Set(s, [c EXCEPT !.pc = "ga_fetch"])
           ELSE Set(s, [c EXCEPT !.events = ReadMirror, !.pc = c.ret])
    /\ UNCHANGED <<useBackend, stored, dbEvents, restStore, now, ncalls, last, owner>>

\* GET /events settles: response.data.data || [] (the endpoint answers with the
\* envelope { data: <its list> }), or the request fails and the catch block runs
getAllEventsFetch(s) ==
    /\ calls[s].pc = "ga_fetch"
    /\ \E ok \in BOOLEAN :
        IF ok
        THEN Set(s, [calls[s] EXCEPT !.events = restStore, !.fetch = "ok",
                                     !.pc = calls[s].ret])
        ELSE Set(s, getAllEventsCatch([calls[s] EXCEPT !.fetch = "failed"]))
    /\ UNCHANGED <<useBackend, stored, dbEvents, restStore, now, ncalls, last, owner>>

\* ---------------------------------------------------------------- getEventById
getEventById(s, id) ==
    /\ calls[s].pc \in {"idle", "done"} /\ ncalls < MaxCalls
    /\ Set(s, [NewCall("get", "probe") EXCEPT !.id = id])
    /\ ncalls' = ncalls + 1
    /\ UNCHANGED <<useBackend, stored, dbEvents, restStore, now, last, owner>>

\* getEventByIdCatch that throws error on instead of returning null
getEventByIdRethrow(c) == [c EXCEPT !.error = "transport", !.pc = "done"]

\* the catch block: return null
getEventByIdCatch(c) == [c EXCEPT !.result = <<>>, !.pc = "done"]

getEventByIdBranch(s) ==
    /\ calls[s].pc = "branch" /\ calls[s].op = "get"
    /\ LET c == [calls[s] EXCEPT !.seen = Append(@, useBackend)]
       IN  IF useBackend
           THEN Set(s, [c EXCEPT !.pc = "get_fetch"])
           ELSE Set(s, [c EXCEPT !.pc = "ga_probe", !.ret = "get_find"])
    /\ UNCHANGED <<useBackend, stored, dbEvents, restStore, now, ncalls, last, owner>>

\* GET /events/{id} settles: response.data.data, or (failure, 404) the catch block
getEventByIdFetch(s) ==
    /\ calls[s].pc = "get_fetch"
    /\ \E ok \in BOOLEAN :
        IF ok /\ FindIndex(restStore, calls[s].id) # 0
        THEN Set(s, [calls[s] EXCEPT !.result = Find(restStore, calls[s].id),
                                     !.pc = "done"])
        ELSE Set(s, getEventByIdCatch(calls[s]))
    /\ UNCHANGED <<useBackend, stored, dbEvents, restStore, now, ncalls, last, owner>>

\* getEventByIdFind with the predicate event.id !== id
getEventByIdFindOther(s) ==
    /\ calls[s].pc = "get_find"
    /\ LET other == SelectSeq(calls[s].events, LAMBDA e : e.id # calls[s].id)
       IN  Set(s, [calls[s] EXCEPT
                !.result = IF other = <<>> THEN <<>> ELSE << other[1] >>,
                !.pc = "done"])
    /\ UNCHANGED <<useBackend, stored, dbEvents, restStore, now, ncalls, last, owner>>

\* return events.find(event => event.id === id)
getEventByIdFind(s) ==
    /\ calls[s].pc = "get_find"
    /\ Set(s, [calls[s] EXCEPT !.result = Find(calls[s].events, calls[s].id),
                               !.pc = "done"])
    /\ UNCHANGED <<useBackend, stored, dbEvents, restStore, now, ncalls, last, owner>>

\* ---------------------------------------------------------------- createEvent
\* InsertRow with the owner taken from the form data (eventData.userId, a key the
\* form does not carry) instead of the resolved identity
InsertRowOwnerFromData(userId, eventData, id, t) ==
    [id |-> id,
     user_id |-> Undefined,
     event_name |-> IF "eventName" \in DOMAIN eventData THEN eventData.eventName ELSE "",
     updated_at |-> t]

\* the row the store returns for the object handed to insert(): it fills id
\* (gen_random_uuid()) and updated_at (its own now(), t).  event_name stands for
\* all the columns filled as `eventData.x || default`; created_at is left out.
InsertRow(userId, eventData, id, t) ==
    [id |-> id,
     user_id |-> userId[1],
     event_name |-> IF "eventName" \in DOMAIN eventData THEN eventData.eventName ELSE "",
     updated_at |-> t]

\* createEventCatch that logs and swallows: the promise resolves with undefined
createEventSwallow(c, error) == [c EXCEPT !.pc = "done"]

\* the catch block of createEvent: log and throw error
createEventCatch(c, error) == [c EXCEPT !.error = error, !.pc = "done"]

\* createEvent without the check `if (!userId) throw`
createEventUnchecked(s, eventData, su, lu) ==
    /\ calls[s].pc \in {"idle", "done"} /\ ncalls < MaxCalls
    /\ Cardinality(dbEvents) < MaxCreates
    /\ Set(s, [NewCall("create", "insert") EXCEPT
                !.userId = getCurrentUserId(su, lu), !.eventData = eventData])
    /\ ncalls' = ncalls + 1
    /\ UNCHANGED <<useBackend, stored, dbEvents, restStore, now, last, owner>>

\* createEvent(eventData) up to its first suspension: the identity is resolved and
\* checked.  su, lu: what sessionStorage and localStorage hold under 'user'.
createEvent(s, eventData, su, lu) ==
    /\ calls[s].pc \in {"idle", "done"} /\ ncalls < MaxCalls
    /\ Cardinality(dbEvents) < MaxCreates
    /\ LET userId == getCurrentUserId(su, lu)
           c == [NewCall("create", "insert") EXCEPT
                    !.userId = userId, !.eventData = eventData]
       IN  IF userId = <<>>
           THEN Set(s, createEventCatch(c, "User not authenticated"))
           ELSE Set(s, c)
    /\ ncalls' = ncalls + 1
    /\ UNCHANGED <<useBackend, stored, dbEvents, restStore, now, last, owner>>

\* the insert settles: { data: newEvent, error }.  The store's clock is taken to
\* agree with the client's.
createEventInsert(s) ==
    /\ calls[s].pc = "insert"
    /\ \E ok \in BOOLEAN :
        IF ok
        THEN LET row == InsertRow(calls[s].userId, calls[s].eventData,
                                  Cardinality(dbEvents) + 1, now)
             IN  /\ dbEvents' = dbEvents \cup {row.id}
                 /\ owner' = Append(owner, row.user_id)
                 /\ Set(s, [calls[s] EXCEPT !.item = <<row>>, !.pc = "ga_probe",
                                            !.ret = "create_write"])
        ELSE /\ UNCHANGED <<dbEvents, owner>>
             /\ Set(s, createEventCatch([calls[s] EXCEPT !.storeError = TRUE], "store"))
    /\ UNCHANGED <<useBackend, stored, restStore, now, ncalls, last>>

\* createEventWrite that forgets localStorage.setItem
createEventWriteUnsaved(s) ==
    /\ calls[s].pc = "create_write"
    /\ last' = << LastWrite("create", calls[s]) >>
    /\ Set(s, [calls[s] EXCEPT !.result = calls[s].item, !.pc = "done"])
    /\ UNCHANGED <<useBackend, stored, dbEvents, restStore, now, ncalls, owner>>

\* createEventWrite with events.push(newEvent) for events.unshift(newEvent)
createEventWritePush(s) ==
    /\ calls[s].pc = "create_write"
    /\ stored' = SetItem(calls[s].events \o calls[s].item)
    /\ last' = << LastWrite("create", calls[s]) >>
    /\ Set(s, [calls[s] EXCEPT !.result = calls[s].item, !.pc = "done"])
    /\ UNCHANGED <<useBackend, dbEvents, restStore, now, ncalls, owner>>

\* createEventWrite that stores the new record alone, dropping the list it read
createEventWriteAlone(s) ==
    /\ calls[s].pc = "create_write"
    /\ stored' = SetItem(calls[s].item)
    /\ last' = << LastWrite("create", calls[s]) >>
    /\ Set(s, [calls[s] EXCEPT !.result = calls[s].item, !.pc = "done"])
    /\ UNCHANGED <<useBackend, dbEvents, restStore, now, ncalls, owner>>

\* events.unshift(newEvent); setItem; return newEvent
createEventWrite(s) ==
    /\ calls[s].pc = "create_write"
    /\ stored' = SetItem(calls[s].item \o calls[s].events)
    /\ last' = << LastWrite("create", calls[s]) >>
    /\ Set(s, [calls[s] EXCEPT !.result = calls[s].item, !.pc = "done"])
    /\ UNCHANGED <<useBackend, dbEvents, restStore, now, ncalls, owner>>

\* ---------------------------------------------------------------- updateEvent
updateEvent(s, id, updates) ==
    /\ calls[s].pc \in {"idle", "done"} /\ ncalls < MaxCalls
    /\ Set(s, [NewCall("update", "probe") EXCEPT !.id = id, !.updates = updates])
    /\ ncalls' = ncalls + 1
    /\ UNCHANGED <<useBackend, stored, dbEvents, restStore, now, last, owner>>

\* the catch block of updateEvent: log and throw error
updateEventCatch(c, error) == [c EXCEPT !.error = error, !.pc = "done"]

updateEventBranch(s) ==
    /\ calls[s].pc = "branch" /\ calls[s].op = "update"
    /\ LET c == [calls[s] EXCEPT !.seen = Append(@, useBackend)]
       IN  IF useBackend
           THEN Set(s, [c EXCEPT !.pc = "put"])
           ELSE Set(s, [c EXCEPT !.pc = "ga_probe", !.ret = "upd_local_write"])
    /\ UNCHANGED <<useBackend, stored, dbEvents, restStore, now, ncalls, last, owner>>

\* PUT /events/{id} at the endpoint: the fields of the body laid over the record,
\* the identifier being the one of the URL
RestPut(rec, body) ==
    Spread(rec, [k \in (DOMAIN body) \ {"id"} |-> body[k]])

\* the PUT settles: updatedEvent = response.data.data, or the request fails
updateEventPut(s) ==
    /\ calls[s].pc = "put"
    /\ \E ok \in BOOLEAN :
        LET i == FindIndex(restStore, calls[s].id)
        IN  IF ok /\ i # 0
            THEN LET rec == RestPut(restStore[i], JsonObject(calls[s].updates))
                 IN  /\ restStore' = [restStore EXCEPT ![i] = rec]
                     /\ Set(s, [calls[s] EXCEPT !.item = <<rec>>, !.pc = "ga_probe",
                                                !.ret = "upd_live_write"])
            ELSE /\ restStore' = restStore
                 /\ Set(s, updateEventCatch(calls[s], "transport"))
    /\ UNCHANGED <<useBackend, stored, dbEvents, now, ncalls, last, owner>>

\* updateEventLiveWrite that replaces the entry in memory and forgets setItem
updateEventLiveWriteUnsaved(s) ==
    /\ calls[s].pc = "upd_live_write"
    /\ Set(s, [calls[s] EXCEPT !.result = calls[s].item, !.pc = "done"])
    /\ UNCHANGED <<useBackend, stored, dbEvents, restStore, now, ncalls, last, owner>>

\* live path after getAllEvents: replace the entry when it is there, return updatedEvent
updateEventLiveWrite(s) ==
    /\ calls[s].pc = "upd_live_write"
    /\ LET c == calls[s]
           index == FindIndex(c.events, c.id)
       IN  /\ IF index # 0
              THEN /\ stored' = SetItem([c.events EXCEPT ![index] = c.item[1]])
                   /\ last' = << LastWrite("update", c) >>
              ELSE UNCHANGED <<stored, last>>
           /\ Set(s, [c EXCEPT !.result = c.item, !.pc = "done"])
    /\ UNCHANGED <<useBackend, dbEvents, restStore, now, ncalls, owner>>

\* { ...events[index], ...updates, updatedAt: new Date().toISOString() }
Patched(event, updates, t) == Spread(Spread(event, updates), [updatedAt |-> t])

\* updateEventLocalWrite without `if (index === -1) throw`: events[-1] = {...} sets
\* a property the JSON text does not carry, and the merged object is returned
updateEventLocalWriteUnchecked(s) ==
    /\ calls[s].pc = "upd_local_write"
    /\ LET c == calls[s]
           index == FindIndex(c.events, c.id)
       IN  \E t \in now .. MaxClock :
              LET events == IF index = 0 THEN c.events
                            ELSE [c.events EXCEPT ![index] = Patched(@, c.updates, t)]
              IN  /\ now' = t
                  /\ stored' = SetItem(events)
                  /\ last' = << LastWrite("update", c) >>
                  /\ Set(s, [c EXCEPT !.events = events,
                        !.result = IF index = 0 THEN << Patched(<<>>, c.updates, t) >>
                                   ELSE << events[index] >>,
                        !.pc = "done"])
    /\ UNCHANGED <<useBackend, dbEvents, restStore, ncalls, owner>>

\* offline path after getAllEvents; t is the reading of the client clock
updateEventLocalWrite(s) ==
    /\ calls[s].pc = "upd_local_write"
    /\ LET c == calls[s]
           index == FindIndex(c.events, c.id)
       IN  IF index = 0
           THEN /\ Set(s, updateEventCatch(c, "Event not found"))
                /\ UNCHANGED <<stored, now, last>>
           ELSE \E t \in now .. MaxClock :
                  LET events == [c.events EXCEPT ![index] = Patched(@, c.updates, t)]
                  IN  /\ now' = t
                      /\ stored' = SetItem(events)
                      /\ last' = << LastWrite("update", c) >>
                      /\ Set(s, [c EXCEPT !.events = events, !.result = <<events[index]>>,
                                          !.pc = "done"])
    /\ UNCHANGED <<useBackend, dbEvents, restStore, ncalls, owner>>

\* ---------------------------------------------------------------- deleteEvent
deleteEvent(s, id) ==
    /\ calls[s].pc \in {"idle", "done"} /\ ncalls < MaxCalls
    /\ Set(s, [NewCall("delete", "probe") EXCEPT !.id = id])
    /\ ncalls' = ncalls + 1
    /\ UNCHANGED <<useBackend, stored, dbEvents, restStore, now, last, owner>>

\* the catch block of deleteEvent: log and throw error
deleteEventCatch(c, error) == [c EXCEPT !.error = error, !.pc = "done"]

deleteEventBranch(s) ==
    /\ calls[s].pc = "branch" /\ calls[s].op = "delete"
    /\ LET c == [calls[s] EXCEPT !.seen = Append(@, useBackend)]
       IN  IF useBackend
           THEN Set(s, [c EXCEPT !.pc = "del_remote"])
           ELSE Set(s, [c EXCEPT !.pc = "ga_probe", !.ret = "del_write"])
    /\ UNCHANGED <<useBackend, stored, dbEvents, restStore, now, ncalls, last, owner>>

\* deleteEventRemote with the DELETE in a try/catch of its own: a rejected request
\* is logged and the local removal goes on
deleteEventRemoteGuarded(s) ==
    /\ calls[s].pc = "del_remote"
    /\ \E ok \in BOOLEAN :
        /\ restStore' = IF ok THEN Filter(restStore, calls[s].id) ELSE restStore
        /\ Set(s, [calls[s] EXCEPT !.remoteError = ~ok, !.pc = "ga_probe",
                                   !.ret = "del_write"])
    /\ UNCHANGED <<useBackend, stored, dbEvents, now, ncalls, last, owner>>

\* DELETE /events/{id} settles
deleteEventRemote(s) ==
    /\ calls[s].pc = "del_remote"
    /\ \E ok \in BOOLEAN :
        IF ok
        THEN /\ restStore' = Filter(restStore, calls[s].id)
             /\ Set(s, [calls[s] EXCEPT !.pc = "ga_probe", !.ret = "del_write"])
        ELSE /\ restStore' = restStore
             /\ Set(s, deleteEventCatch([calls[s] EXCEPT !.remoteError = TRUE],
                                        "transport"))
    /\ UNCHANGED <<useBackend, stored, dbEvents, now, ncalls, last, owner>>

\* filter, setItem, return true
deleteEventWrite(s) ==
    /\ calls[s].pc = "del_write"
    /\ stored' = SetItem(Filter(calls[s].events, calls[s].id))
    /\ last' = << LastWrite("delete", calls[s]) >>
    /\ Set(s, [calls[s] EXCEPT !.pc = "done"])
    /\ UNCHANGED <<useBackend, dbEvents, restStore, now, ncalls, owner>>

Step(s) ==
    \/ checkBackendConnection(s)
    \/ getAllEventsBranch(s)
    \/ getAllEventsFetch(s)
    \/ getEventByIdBranch(s)
    \/ getEventByIdFetch(s)
    \/ getEventByIdFind(s)
    \/ createEventInsert(s)
    \/ createEventWrite(s)
    \/ updateEventBranch(s)
    \/ updateEventPut(s)
    \/ updateEventLiveWrite(s)
    \/ updateEventLocalWrite(s)
    \/ deleteEventBranch(s)
    \/ deleteEventRemote(s)
    \/ deleteEventWrite(s)

Start(s) ==
    \/ getAllEvents(s)
    \/ \E id \in IdArgs : getEventById(s, id)
    \/ \E e \in EventDatas, su \in UserItems :
          \* localStorage is read only when sessionStorage holds nothing truthy
          \E lu \in (IF Truthy(su) THEN {<<>>} ELSE UserItems) : createEvent(s, e, su, lu)
    \/ \E id \in IdArgs, p \in Patches : updateEvent(s, id, p)
    \/ \E id \in IdArgs : deleteEvent(s, id)

\* One caller that awaits every call before it makes the next.
Next == \E s \in SeqSlots : Start(s) \/ Step(s)

Spec == Init /\ [][Next]_vars

\* Two callers that do not await each other, one call each: the second call may be
\* made while the first is suspended (the slots are taken in order).  A call
\* resumes after each of its awaits in a job of its own (the probe's continuation
\* writes the flag and returns, the caller's continuation is queued behind whatever
\* jobs of the other call are already waiting), so the steps of the two calls
\* interleave at the awaits.
StartConc(s) ==
    /\ calls[s].pc = "idle"
    /\ \A r \in SeqSlots \ {s} : calls[r].pc # "idle"
    /\ Start(s)

NextConc == \E s \in Slots : StartConc(s) \/ Step(s)

SpecConc == Init /\ [][NextConc]_vars

\* ================================================================ properties
Done(c, op) == c.op = op /\ c.pc = "done"

\* every liveness probe the call made failed: it was served by the mirror alone
Offline(c) == c.probes # <<>> /\ AllFalse(c.probes)

\* the mirror as the call found it
PreMirror(c) == IF c.pre = <<>> THEN <<>> ELSE c.pre[1]

\* the mirror's record for id: its first entry with that identifier (<<>>: none)
MirrorEntry(id) ==
    LET hits == SelectSeq(ReadMirror, LAMBDA e : e.id = id)
    IN  IF hits = <<>> THEN <<>> ELSE << hits[1] >>

LastWas(op) == last # <<>> /\ last[1].op = op

\* ---------------------------------------------------------------- C1
\* C1: a createEvent whose identity resolves to null/undefined never reaches the
\* insert: it is rejected with 'User not authenticated', and the table (and the
\* mirror) are as they were before the call.
C1_UnauthenticatedCreateFails ==
    \A s \in Slots :
        (calls[s].op = "create" /\ calls[s].userId = <<>>) =>
            /\ calls[s].pc = "done"
            /\ calls[s].error = "User not authenticated"
            /\ dbEvents = calls[s].preDb
            /\ stored = calls[s].pre

\* an unauthenticated createEvent made after an earlier insert succeeded
C1_Witness ==
    \E s \in Slots :
        /\ Done(calls[s], "create") /\ calls[s].userId = <<>>
        /\ calls[s].error = "User not authenticated"
        /\ dbEvents # {}

\* ---------------------------------------------------------------- C2
\* C2: a createEvent that resolves (identity u, insert succeeded) returns a record
\* whose user_id is u and whose id is that of no row inserted before the call.
C2_OwnerAndFreshId ==
    \A s \in Slots :
        (Done(calls[s], "create") /\ calls[s].error = "") =>
            /\ Len(calls[s].result) = 1
            /\ calls[s].result[1].user_id = calls[s].userId[1]
            /\ calls[s].result[1].id \notin calls[s].preDb

\* a second createEvent has resolved
C2_Witness ==
    \E s \in Slots :
        /\ Done(calls[s], "create") /\ calls[s].error = ""
        /\ calls[s].preDb # {}
        /\ calls[s].result[1].id \in dbEvents

\* ---------------------------------------------------------------- C3
\* C3 as stated: whatever the probes say, getEventById(id) resolves with the
\* mirror's record for id, and with null/undefined when the mirror has none.
C3_GetReturnsMirrorEntry ==
    \A s \in Slots :
        Done(calls[s], "get") =>
            /\ calls[s].error = ""
            /\ calls[s].result = MirrorEntry(calls[s].id)

\* C3 as amended: when both liveness probes of the call fail (its own and the one
\* of the inner getAllEvents), getEventById(id) resolves with the mirror's first
\* record for id, and with undefined when the mirror has none.
C3_OfflineGetReturnsMirrorEntry ==
    \A s \in Slots :
        (Done(calls[s], "get") /\ Offline(calls[s])) =>
            /\ calls[s].error = ""
            /\ calls[s].result = MirrorEntry(calls[s].id)

\* an offline getEventById found its record behind another entry of the mirror
C3_Witness ==
    \E s \in Slots :
        /\ Done(calls[s], "get") /\ Offline(calls[s])
        /\ calls[s].result # <<>>
        /\ ReadMirror[1].id # calls[s].id

\* ---------------------------------------------------------------- C4
\* the modification timestamp of a record: the schema's column updated_at where
\* the record has it, the REST shape's updatedAt otherwise
ModKey(r) == IF "updated_at" \in DOMAIN r THEN "updated_at" ELSE "updatedAt"

\* C4: after an offline updateEvent(id, patch) has resolved, the mirror's entry
\* is the entry as it was with the patch laid over it and its modification
\* timestamp set to a later time.
C4_OfflineUpdateRefreshesTimestamp ==
    \A s \in Slots :
        (Done(calls[s], "update") /\ Offline(calls[s]) /\ calls[s].error = "") =>
            LET c == calls[s]
                i == FindIndex(PreMirror(c), c.id)
                old == PreMirror(c)[i]
            IN  \E t \in 0 .. MaxClock :
                    /\ t > old[ModKey(old)]
                    /\ ReadMirror[i] =
                         JsonObject(Spread(Spread(old, c.updates),
                                           [k \in {ModKey(old)} |-> t]))

\* ---------------------------------------------------------------- C5
\* C5: once deleteEvent(id) has resolved the mirror holds no entry with id, and a
\* getAllEvents made while that delete is still the last write does not list id.
C5_DeletedStaysDeleted ==
    \A s \in Slots :
        /\ (Done(calls[s], "delete") /\ calls[s].error = "") =>
                calls[s].id \notin Ids(ReadMirror)
        /\ (Done(calls[s], "list") /\ LastWas("delete")) =>
                last[1].id \notin Ids(calls[s].events)

\* ---------------------------------------------------------------- C6
\* C6: with the backend unavailable, createEvent returning r followed (no write
\* between) by getEventById(r.id) yields a record equal to r.
C6_CreateGetRoundTrip ==
    \A s \in Slots :
        ( /\ Done(calls[s], "get") /\ Offline(calls[s])
          /\ LastWas("create") /\ last[1].offline
          /\ calls[s].id = last[1].id ) =>
            /\ calls[s].error = ""
            /\ calls[s].result = last[1].item

\* the round trip was made over a mirror that held other entries before
C6_Witness ==
    \E s \in Slots :
        /\ Done(calls[s], "get") /\ Offline(calls[s])
        /\ LastWas("create") /\ last[1].offline
        /\ calls[s].id = last[1].id
        /\ Len(ReadMirror) > 1

\* ---------------------------------------------------------------- C7
\* C7: an offline createEvent that resolves leaves the mirror holding the new
\* record followed by the entries it held, in their order; and the next
\* getAllEvents, offline too, lists the new record first.
C7_CreatePrepends ==
    \A s \in Slots :
        /\ (Done(calls[s], "create") /\ calls[s].error = "" /\ Offline(calls[s])) =>
                stored = << calls[s].result \o PreMirror(calls[s]) >>
        /\ ( /\ Done(calls[s], "list") /\ Offline(calls[s])
             /\ LastWas("create") /\ last[1].offline ) =>
                /\ calls[s].events # <<>>
                /\ calls[s].events[1] = last[1].item[1]

\* an offline createEvent over a mirror that was not empty
C7_Witness ==
    \E s \in Slots :
        /\ Done(calls[s], "create") /\ calls[s].error = "" /\ Offline(calls[s])
        /\ PreMirror(calls[s]) # <<>>
        /\ Len(ReadMirror) > 1

\* ---------------------------------------------------------------- C8
\* C8: getAllEvents and getEventById never reject: at every point of such a call
\* no error is pending, and getEventById settles with one record or none.
C8_ReadsNeverThrow ==
    \A s \in Slots :
        (calls[s].op \in {"list", "get"}) =>
            /\ calls[s].error = ""
            /\ Len(calls[s].result) <= 1

\* a getEventById whose GET /events/{id} failed although the endpoint has the record
C8_Witness ==
    \E s \in Slots :
        /\ Done(calls[s], "get") /\ calls[s].probes = << TRUE >>
        /\ calls[s].id \in Ids(restStore)
        /\ calls[s].result = <<>>

\* ---------------------------------------------------------------- C9
\* C9: an offline updateEvent(id, patch) that finds no entry with id in the mirror
\* rejects with 'Event not found' and leaves the mirror as it was.
C9_OfflineUpdateNotFound ==
    \A s \in Slots :
        ( /\ Done(calls[s], "update") /\ Offline(calls[s])
          /\ calls[s].id \notin Ids(PreMirror(calls[s])) ) =>
            /\ calls[s].error = "Event not found"
            /\ stored = calls[s].pre

\* the mirror held entries, none of them with the identifier asked for
C9_Witness ==
    \E s \in Slots :
        /\ Done(calls[s], "update") /\ Offline(calls[s])
        /\ PreMirror(calls[s]) # <<>>
        /\ calls[s].id \notin Ids(PreMirror(calls[s]))
        /\ calls[s].error = "Event not found"

\* ---------------------------------------------------------------- C10
\* C10: when the insert's reply carries an error, createEvent rejects with it and
\* the mirror is as it was before the call.
C10_InsertFailurePropagates ==
    \A s \in Slots :
        (calls[s].op = "create" /\ calls[s].storeError) =>
            /\ calls[s].pc = "done"
            /\ calls[s].error = "store"
            /\ stored = calls[s].pre

\* the insert failed for a caller whose mirror already held records
C10_Witness ==
    \E s \in Slots :
        /\ Done(calls[s], "create") /\ calls[s].storeError
        /\ calls[s].error = "store"
        /\ calls[s].pre # <<>> /\ PreMirror(calls[s]) # <<>>

\* ---------------------------------------------------------------- C11
\* C11: a deleteEvent(id) that found the backend live and whose DELETE was rejected
\* has thrown (no local removal was started), and the mirror holds exactly the
\* entries it held before the call.
C11_RemoteDeleteFailurePropagates ==
    \A s \in Slots :
        (calls[s].op = "delete" /\ calls[s].remoteError) =>
            /\ calls[s].pc = "done"
            /\ calls[s].error = "transport"
            /\ stored = calls[s].pre

\* the DELETE was rejected for an id the mirror holds
C11_Witness ==
    \E s \in Slots :
        /\ Done(calls[s], "delete") /\ calls[s].remoteError
        /\ calls[s].probes = << TRUE >>
        /\ calls[s].id \in Ids(PreMirror(calls[s]))
        /\ calls[s].id \in Ids(ReadMirror)

\* ---------------------------------------------------------------- C12
\* C12: whatever calls were made with whatever patches, every record of the
\* mirror that stands for a row of the table carries the user_id the row was
\* inserted with.
C12_OwnerImmutable ==
    \A i \in 1 .. Len(ReadMirror) :
        LET e == ReadMirror[i]
        IN  (e.id \in 1 .. Len(owner)) =>
                /\ "user_id" \in DOMAIN e
                /\ e.user_id = owner[e.id]

\* ---------------------------------------------------------------- C13
\* C13: getAllEvents returns the endpoint's list when its probe and its fetch both
\* succeed; it returns the mirror's contents (the empty list when nothing is
\* stored) when the probe fails, making no fetch, and when the fetch fails after
\* a successful probe.
C13_ListSource ==
    \A s \in Slots :
        Done(calls[s], "list") =>
            LET c == calls[s]
                mirror == IF stored = <<>> THEN <<>> ELSE stored[1]
            IN  /\ c.error = ""
                /\ (c.probes = << TRUE >> /\ c.fetch = "ok") => c.events = restStore
                /\ (c.probes = << TRUE >> /\ c.fetch = "failed") => c.events = mirror
                /\ (c.probes = << FALSE >>) => (c.fetch = "" /\ c.events = mirror)

\* the fetch failed after a successful probe and the mirror's records, which are
\* not the endpoint's, were returned
C13_Witness ==
    \E s \in Slots :
        /\ Done(calls[s], "list")
        /\ calls[s].probes = << TRUE >> /\ calls[s].fetch = "failed"
        /\ calls[s].events # <<>>
        /\ calls[s].events # restStore

\* ---------------------------------------------------------------- C14
\* an updateEvent that took the live branch and resolved
LiveUpdated(c) == Done(c, "update") /\ c.error = "" /\ c.seen[1]

C15_OfflineMutationIsLocal ==
    \A s \in Slots :
        LET c == calls[s]
            old == PreMirror(c)
            i == FindIndex(old, c.id)
        IN  (c.op \in {"update", "delete"} /\ c.seen # <<>> /\ ~c.seen[1]) =>
                /\ c.fetch = ""
                /\ restStore = c.preRest /\ dbEvents = c.preDb
                /\ (c.pc = "done" /\ c.error # "") => stored = c.pre
                /\ (c.pc = "done" /\ c.error = "" /\ c.op = "delete") =>
                        stored = SetItem(Filter(old, c.id))
                /\ (c.pc = "done" /\ c.error = "" /\ c.op = "update") =>
                        /\ i # 0
                        /\ \E t \in 0 .. MaxClock :
                              stored = SetItem([old EXCEPT ![i] = Patched(@, c.updates, t)])

\* ---------------------------------------------------------------- C16
\* the call has had a reply from the table or from a data request to the endpoint
RemoteAccessed(c) ==
    \/ c.storeError \/ c.remoteError \/ c.fetch # ""
    \/ (c.op \in {"create", "update"} /\ c.item # <<>>)

\* a call probes before any other remote access
ProbeFirst == \A s \in Slots : RemoteAccessed(calls[s]) => calls[s].probes # <<>>

\* a list the endpoint served is what the mirror holds once the call has settled
LiveListMirrored ==
    \A s \in Slots :
        (Done(calls[s], "list") /\ calls[s].fetch = "ok") =>
            ReadMirror = calls[s].events

\* getAllEvents served by the endpoint, then at once getAllEvents with the backend
\* unavailable: the same records
ListThenOfflineList ==
    \A s \in Slots :
        ( /\ Done(calls[s], "list") /\ Offline(calls[s])
          /\ calls[s].prevRest # <<>> ) =>
            calls[s].events = calls[s].prevRest[1]

\* C16: every operation probes before any other remote access, and every read or
\* write served live updates the mirror, so that a getAllEvents served by the
\* endpoint followed by a getAllEvents with the backend unavailable returns the
\* same records.
C16_LiveThenOfflineAgree ==
    ProbeFirst /\ LiveListMirrored /\ ListThenOfflineList

\* ---------------------------------------------------------------- C17
\* C17: with several calls in flight, the value of this.useBackend a call reads
\* at each `if (this.useBackend)` is the outcome of the probe the call itself
\* awaited just before, never one written by another call's probe.
C17_BranchOnOwnProbe ==
    \A s \in Slots :
        \A i \in 1 .. Len(calls[s].seen) : calls[s].seen[i] = calls[s].probes[i]

\* ---------------------------------------------------------------- C18
\* a createEvent that resolved with every probe of the call failed
CreatedOffline(c) == Done(c, "create") /\ c.error = "" /\ Offline(c)

\* the list the call read from the mirror held the record rec
ReadHeld(c, rec) == \E i \in 1 .. Len(c.events) : c.events[i] = rec

\* C18: two createEvent calls in flight together, both resolved offline.  The
\* mirror can end without the record of one of them (the state C18_Witness);
\* this comes from the interleaving between a call's read of the mirror and its
\* write alone: whenever one call read the mirror after the other had written
\* its record, the mirror holds the records of both.
C18_NoLossWithoutOverlap ==
    \A s \in Slots : \A r \in Slots \ {s} :
        ( /\ CreatedOffline(calls[s]) /\ CreatedOffline(calls[r])
          /\ ReadHeld(calls[s], calls[r].item[1]) ) =>
            /\ calls[s].item[1].id \in Ids(ReadMirror)
            /\ calls[r].item[1].id \in Ids(ReadMirror)

\* both calls resolved, each returning its record, and the mirror lacks the
\* record of one of them: the other call read the mirror before it was written
C18_Witness ==
    \E s \in Slots : \E r \in Slots \ {s} :
        /\ CreatedOffline(calls[s]) /\ CreatedOffline(calls[r])
        /\ calls[s].result = calls[s].item /\ calls[r].result = calls[r].item
        /\ calls[r].item[1].id \notin Ids(ReadMirror)
        /\ calls[s].item[1].id \in Ids(ReadMirror)
        /\ ~ReadHeld(calls[s], calls[r].item[1])

\* ---------------------------------------------------------------- C19
\* C19: an updateEvent(id, ...) or deleteEvent(id) that took the live branch and
\* resolved changed the mirror at id only: for every other identifier the
\* mirror's entry (present or absent, and its fields) is as before the call.
C19_LiveMutationFrame ==
    \A s \in Slots :
        LET c == calls[s]
        IN  (c.op \in {"update", "delete"} /\ c.pc = "done" /\ c.error = "" /\ c.seen[1]) =>
                \A k \in (Ids(PreMirror(c)) \cup Ids(ReadMirror)) \ {c.id} :
                    Find(ReadMirror, k) = Find(PreMirror(c), k)

\* ---------------------------------------------------------------- C20
\* C20: starting from an empty mirror, with fresh identifiers from the table and
\* no duplicate identifier in the endpoint's list, whatever calls were made with
\* whatever probe outcomes and patches, no two entries of the mirror have the
\* same identifier.
C20_MirrorIdsUnique ==
    \A i, j \in 1 .. Len(ReadMirror) :
        (i # j) => ReadMirror[i].id # ReadMirror[j].id

====
